---------------------------- MODULE Spec2Model ----------------------------
(***************************************************************************)
(* bibjson.py: conversion of decoded BibTeX entries into a BibJSON         *)
(* collection.  collection_from_dict is modelled as a state machine (one   *)
(* action per step of the function: the assertion, the metadata loop, one  *)
(* iteration of the records loop, the final count and return);             *)
(* record_from_entry and the fill_record_<type> rules are operators.       *)
(*                                                                         *)
(* A Python dict is a function from its keys to its values (`k in d` is    *)
(* k \in DOMAIN d); the insertion order of an OrderedDict's keys is not    *)
(* modelled.  A logging.error call is a record appended to `log`.          *)
(***************************************************************************)
EXTENDS Naturals, Sequences, FiniteSets, TLC

VARIABLES
    entries,    \* argument: the entries dict, as a sequence of <<key, entry>>
    kwargs,     \* argument: the metadata keyword arguments
    pc,         \* position in collection_from_dict
    c,          \* the collection under construction: metadata and records
    log,        \* the diagnostics emitted so far (logging.error calls)
    returned    \* TRUE once collection_from_dict has returned c

vars == <<entries, kwargs, pc, c, log, returned>>

-----------------------------------------------------------------------------
(* Bounds of the model.                                                    *)

\* longest entries dict given to collection_from_dict under Spec
MaxEntries == 2
\* under SpecRecord an entry has at most MaxFields fields present, or at
\* most MaxFields fields of the universe absent
MaxFields == 2

-----------------------------------------------------------------------------
(* Dict helpers.                                                           *)

\* r[k] = v
Put(r, k, v) == [x \in (DOMAIN r) \cup {k} |-> IF x = k THEN v ELSE r[x]]

\* the elements of a tuple
Range(s) == {s[i] : i \in 1..Len(s)}

\* the empty dict
EmptyDict == [x \in {} |-> x]

-----------------------------------------------------------------------------
(* Diagnostics: _require_keys_in_entry                                     *)

\* 'All' if not req_all else 'At least one'
QuantifierWord(req_all) == IF ~req_all THEN "All" ELSE "At least one"

\* the same with the two words exchanged
QuantifierWordSwapped(req_all) == IF req_all THEN "All" ELSE "At least one"

\* The condition under which _require_keys_in_entry logs.
KeysMissing(entry, keys, req_all) ==
    LET keys_in_entry == [i \in 1..Len(keys) |-> keys[i] \in DOMAIN entry]
        all == \A i \in 1..Len(keys) : keys_in_entry[i]
        any == \E i \in 1..Len(keys) : keys_in_entry[i]
    IN  (req_all /\ ~all) \/ (~req_all /\ ~any)

\* entry.get('ID')
EntryId(entry) == IF "ID" \in DOMAIN entry THEN entry["ID"] ELSE "None"

\* Mutant: the words of the message exchanged.
_require_keys_in_entry_swapped(entry, keys, req_all) ==
    IF KeysMissing(entry, keys, req_all)
    THEN << [msg |-> "required keys not found", entry |-> EntryId(entry),
             quantifier |-> QuantifierWordSwapped(req_all), keys |-> keys] >>
    ELSE << >>

\* Mutant: an at-least-one check never logs.
_require_keys_in_entry_all_only(entry, keys, req_all) ==
    IF req_all /\ KeysMissing(entry, keys, req_all)
    THEN << [msg |-> "required keys not found", entry |-> EntryId(entry),
             quantifier |-> QuantifierWord(req_all), keys |-> keys] >>
    ELSE << >>

\* The diagnostics one call emits: none or one.
\* "entry '%s': %s of the required keys '%s' not found in record"
_require_keys_in_entry(entry, keys, req_all) ==
    IF KeysMissing(entry, keys, req_all)
    THEN << [msg |-> "required keys not found", entry |-> EntryId(entry),
             quantifier |-> QuantifierWord(req_all), keys |-> keys] >>
    ELSE << >>

-----------------------------------------------------------------------------
(* Field fillers.                                                          *)

RECURSIVE SimpleFillFrom(_, _, _, _)
\* the loop `for k in keys: if k in entry: r[k] = entry[k]` from position i
SimpleFillFrom(r, entry, keys, i) ==
    IF i > Len(keys) THEN r
    ELSE SimpleFillFrom(IF keys[i] \in DOMAIN entry
                        THEN Put(r, keys[i], entry[keys[i]])
                        ELSE r,
                        entry, keys, i + 1)

\* Mutant: every lowercase field of the entry is copied, listed or not.
_simple_fill_everything(r, entry, keys) ==
    [x \in (DOMAIN r) \cup ((DOMAIN entry) \ {"ENTRYTYPE", "ID"}) |->
        IF x \in DOMAIN entry THEN entry[x] ELSE r[x]]

_simple_fill(r, entry, keys) == SimpleFillFrom(r, entry, keys, 1)

\* r[k] = [{'name': n} for n in entry[k]]
_fill_named_entry(r, entry, k) ==
    Put(r, k, [i \in 1..Len(entry[k]) |-> [name |-> entry[k][i]]])

_fill_author(r, entry) ==
    IF "author" \notin DOMAIN entry THEN r
    ELSE _fill_named_entry(r, entry, "author")

_fill_editor(r, entry) ==
    IF "editor" \notin DOMAIN entry THEN r
    ELSE _fill_named_entry(r, entry, "editor")

_fill_publisher(r, entry) ==
    IF "publisher" \notin DOMAIN entry THEN r
    ELSE LET p == [x \in {"name"} |-> entry["publisher"]]
         IN  Put(r, "publisher",
                 IF "address" \in DOMAIN entry
                 THEN Put(p, "address", entry["address"])
                 ELSE p)

\* Mutant: the sub-object is built as soon as `journal` is present.
_fill_journal_no_volume(r, entry) ==
    IF "journal" \notin DOMAIN entry THEN r
    ELSE Put(r, "journal", [x \in {"name"} |-> entry["journal"]])

_fill_journal(r, entry) ==
    IF "journal" \notin DOMAIN entry \/ "volume" \notin DOMAIN entry THEN r
    ELSE LET j == [x \in {"name", "volume"} |->
                      IF x = "name" THEN entry["journal"] ELSE entry["volume"]]
             opt_keys == <<"number", "pages", "month">>
         IN  Put(r, "journal", SimpleFillFrom(j, entry, opt_keys, 1))


\* _simple_fill_one_of: the at-least-one check, then its own copy loop
_simple_fill_one_of(r, entry, keys) ==
    [log |-> _require_keys_in_entry(entry, keys, FALSE),
     r   |-> SimpleFillFrom(r, entry, keys, 1)]

-----------------------------------------------------------------------------
(* The type-specific rules.  Each takes the record r holding the identity  *)
(* keys and the entry, and yields the filled record and the diagnostics    *)
(* it logged, in the order of the calls.                                   *)

fill_record_article(r, entry) ==
    [log |-> _require_keys_in_entry(entry, <<"title", "year", "author", "journal">>, TRUE),
     r   |-> _fill_journal(
               _fill_author(
                 _simple_fill(r, entry, <<"title", "year", "note", "key">>),
                 entry),
               entry)]

fill_record_book(r, entry) ==
    [log |-> _require_keys_in_entry(entry, <<"title", "year", "publisher">>, TRUE)
             \o _require_keys_in_entry(entry, <<"author", "editor">>, FALSE),
     r   |-> _fill_publisher(
               _fill_editor(
                 _fill_author(
                   _simple_fill(r, entry, <<"title", "year", "note", "key", "volume",
                                            "number", "series", "edition", "month">>),
                   entry),
                 entry),
               entry)]

fill_record_booklet(r, entry) ==
    [log |-> _require_keys_in_entry(entry, <<"title">>, TRUE),
     r   |-> _fill_author(
               _simple_fill(r, entry, <<"title", "howpublished", "address", "month",
                                        "year", "note", "key">>),
               entry)]

fill_record_electronic(r, entry) ==
    [log |-> _require_keys_in_entry(entry, <<"author", "title", "howpublished">>, TRUE),
     r   |-> _fill_author(
               _simple_fill(r, entry, <<"title", "howpublished", "month", "year",
                                        "note", "key">>),
               entry)]

fill_record_inbook(r, entry) ==
    LET filled == _simple_fill(r, entry, <<"title", "year", "note", "key", "volume",
                                           "number", "series", "edition", "month">>)
        one_of == _simple_fill_one_of(filled, entry, <<"chapter", "pages">>)
    IN  [log |-> _require_keys_in_entry(entry, <<"author", "editor">>, FALSE)
                 \o _require_keys_in_entry(entry, <<"title", "year", "publisher">>, TRUE)
                 \o one_of.log,
         r   |-> _fill_publisher(_fill_editor(_fill_author(one_of.r, entry), entry), entry)]

fill_record_incollection(r, entry) ==
    [log |-> _require_keys_in_entry(entry, <<"author", "publisher", "title", "year",
                                             "booktitle">>, TRUE),
     r   |-> _fill_editor(
               _fill_publisher(
                 _fill_author(
                   _simple_fill(r, entry, <<"title", "year", "booktitle", "note", "key",
                                            "volume", "number", "series", "chapter",
                                            "pages", "address", "edition", "month">>),
                   entry),
                 entry),
               entry)]

fill_record_inproceedings(r, entry) ==
    [log |-> _require_keys_in_entry(entry, <<"author", "title", "year", "booktitle">>, TRUE),
     r   |-> _fill_publisher(
               _fill_editor(
                 _fill_author(
                   _simple_fill(r, entry, <<"title", "year", "booktitle", "note", "key",
                                            "volume", "number", "series", "organization",
                                            "pages", "address", "edition", "month">>),
                   entry),
                 entry),
               entry)]

fill_record_conference(r, entry) == fill_record_inproceedings(r, entry)

fill_record_manual(r, entry) ==
    [log |-> _require_keys_in_entry(entry, <<"author", "title">>, TRUE),
     r   |-> _fill_author(
               _simple_fill(r, entry, <<"title", "address", "organization", "edition",
                                        "month", "year", "note", "key">>),
               entry)]

fill_record_misc(r, entry) ==
    [log |-> << >>,
     r   |-> _fill_author(
               _simple_fill(r, entry, <<"title", "howpublished", "month", "year",
                                        "note", "key">>),
               entry)]

fill_record_periodical(r, entry) ==
    [log |-> _require_keys_in_entry(entry, <<"title", "year", "number">>, TRUE),
     r   |-> _fill_journal(
               _fill_publisher(
                 _fill_author(
                   _simple_fill(r, entry, <<"title", "year", "number", "organization",
                                            "note", "key">>),
                   entry),
                 entry),
               entry)]

fill_record_phdthesis(r, entry) ==
    [log |-> _require_keys_in_entry(entry, <<"author", "title", "school", "year">>, TRUE),
     r   |-> _fill_author(
               _simple_fill(r, entry, <<"title", "school", "year", "address", "month",
                                        "note", "key">>),
               entry)]

fill_record_mastersthesis(r, entry) == fill_record_phdthesis(r, entry)

fill_record_proceedings(r, entry) ==
    [log |-> _require_keys_in_entry(entry, <<"title", "year">>, TRUE),
     r   |-> _fill_publisher(
               _fill_editor(
                 _simple_fill(r, entry, <<"title", "year", "volume", "number", "series",
                                          "address", "month", "organization", "note",
                                          "key">>),
                 entry),
               entry)]

fill_record_techreport(r, entry) ==
    [log |-> _require_keys_in_entry(entry, <<"author", "title", "institution", "year">>, TRUE),
     r   |-> _fill_editor(
               _fill_author(
                 _simple_fill(r, entry, <<"title", "institution", "year", "number",
                                          "address", "month", "note", "key">>),
                 entry),
               entry)]

\* The tuple written ('title', 'note' 'month', 'year', 'key'): Python joins the
\* adjacent literals 'note' 'month' into the one string 'notemonth'.
fill_record_unpublished(r, entry) ==
    [log |-> _require_keys_in_entry(entry, <<"author", "title", "note">>, TRUE),
     r   |-> _fill_author(
               _simple_fill(r, entry, <<"title", "notemonth", "year", "key">>),
               entry)]

-----------------------------------------------------------------------------
(* record_from_entry                                                       *)

\* The type tags t for which the module has an attribute fill_record_<t>.
FillFuncTypes ==
    {"article", "book", "booklet", "conference", "electronic", "inbook",
     "incollection", "inproceedings", "manual", "mastersthesis", "misc",
     "periodical", "phdthesis", "proceedings", "techreport", "unpublished"}

\* getattr(sys.modules[__name__], 'fill_record_%s' % type, None) is not None
HasFillFunc(type) == type \in FillFuncTypes

\* call_fn(r, entry)
call_fn(type, r, entry) ==
    CASE type = "article"       -> fill_record_article(r, entry)
      [] type = "book"          -> fill_record_book(r, entry)
      [] type = "booklet"       -> fill_record_booklet(r, entry)
      [] type = "conference"    -> fill_record_conference(r, entry)
      [] type = "electronic"    -> fill_record_electronic(r, entry)
      [] type = "inbook"        -> fill_record_inbook(r, entry)
      [] type = "incollection"  -> fill_record_incollection(r, entry)
      [] type = "inproceedings" -> fill_record_inproceedings(r, entry)
      [] type = "manual"        -> fill_record_manual(r, entry)
      [] type = "mastersthesis" -> fill_record_mastersthesis(r, entry)
      [] type = "misc"          -> fill_record_misc(r, entry)
      [] type = "periodical"    -> fill_record_periodical(r, entry)
      [] type = "phdthesis"     -> fill_record_phdthesis(r, entry)
      [] type = "proceedings"   -> fill_record_proceedings(r, entry)
      [] type = "techreport"    -> fill_record_techreport(r, entry)
      [] type = "unpublished"   -> fill_record_unpublished(r, entry)

\* Mutant: an unknown type is passed over without a diagnostic.
record_from_entry_silent(key, entry, collection) ==
    LET r == [x \in {"type", "id", "citekey", "collection"} |->
                 CASE x = "type"    -> entry["ENTRYTYPE"]
                   [] x = "id"      -> key
                   [] x = "citekey" -> key
                   [] OTHER         -> collection]
    IN  IF HasFillFunc(r["type"])
        THEN call_fn(r["type"], r, entry)
        ELSE [log |-> << >>, r |-> r]

\* The record returned and the diagnostics logged on the way.
record_from_entry(key, entry, collection) ==
    LET r == [x \in {"type", "id", "citekey", "collection"} |->
                 CASE x = "type"    -> entry["ENTRYTYPE"]
                   [] x = "id"      -> key
                   [] x = "citekey" -> key
                   [] OTHER         -> collection]
    IN  IF HasFillFunc(r["type"])
        THEN call_fn(r["type"], r, entry)
        ELSE [log |-> << [msg |-> "no conversion function", entry |-> key,
                          type |-> r["type"]] >>,
              r   |-> r]

-----------------------------------------------------------------------------
(* The inputs.                                                             *)

\* Field values of the decoded entries: one value per field name, all
\* different, author and editor already split into lists of names.
FieldValue ==
    [title |-> "T", year |-> "2020", author |-> <<"A. One", "B. Two">>,
     editor |-> <<"C. Three">>, journal |-> "J", volume |-> "3",
     number |-> "4", pages |-> "1-10", month |-> "may", note |-> "N",
     key |-> "sortkey", publisher |-> "P", address |-> "Berlin",
     series |-> "S", edition |-> "2nd", howpublished |-> "online",
     chapter |-> "5", booktitle |-> "BT", organization |-> "Org",
     school |-> "Sch", institution |-> "Inst", notemonth |-> "NM",
     abstract |-> "Abs", id |-> "other-id", type |-> "other-type",
     citekey |-> "other-citekey", collection |-> "othercoll"]

\* The field names an entry may carry: every field a rule reads, the name
\* 'notemonth', a field no rule reads, and the names of the identity keys.
Fields == DOMAIN FieldValue

\* The known type tags and three unknown ones.
Types == FillFuncTypes \cup {"foobar", "Article", "fill_record_article"}

\* An entry as bibtexparser hands it over: ENTRYTYPE, ID (the citation key
\* the entries dict is keyed by) and the fields present.
Entry(type, key, present) ==
    [k \in present \cup {"ENTRYTYPE", "ID"} |->
        CASE k = "ENTRYTYPE" -> type
          [] k = "ID"        -> key
          [] OTHER           -> FieldValue[k]]

Keys == {"abc", "x1", "k3"}

\* Spec: entries of a few types and field sets, in dicts of up to MaxEntries.
SmallTypes == {"article", "book", "foobar"}
SmallFieldSets ==
    { {},
      {"title", "year", "author", "journal", "volume", "pages"},
      {"title", "id", "key", "editor"} }

\* The dicts of n entries: the keys of a dict are distinct.
EntrySeqs(n) ==
    { s \in [1..n -> Keys \X SmallTypes \X SmallFieldSets] :
        \A i, j \in 1..n : i # j => s[i][1] # s[j][1] }

SmallEntries ==
    UNION { { [i \in 1..n |-> <<s[i][1], Entry(s[i][2], s[i][1], s[i][3])>>] :
                s \in EntrySeqs(n) } : n \in 0..MaxEntries }

\* SpecRecord: one entry of any type, with few fields or nearly all.
RECURSIVE SubsetsUpTo(_)
\* the subsets of Fields of at most n elements
SubsetsUpTo(n) ==
    IF n = 0 THEN { {} }
    ELSE LET smaller == SubsetsUpTo(n - 1)
         IN  smaller \cup { S \cup {f} : S \in smaller, f \in Fields }

FieldSets ==
    SubsetsUpTo(MaxFields) \cup { Fields \ S : S \in SubsetsUpTo(MaxFields) }

\* The metadata keyword arguments.
Kwargs(withSource) ==
    { [k \in K |-> CASE k = "collection"        -> "mycoll"
                     [] k = "source"            -> "refs.bib"
                     [] k = "ignore_exceptions" -> ign
                     [] k = "records"           -> rec] :
        K \in { K \in SUBSET {"collection", "source", "ignore_exceptions", "records"} :
                  withSource \/ "source" \notin K },
        ign \in BOOLEAN, rec \in {0, 99} }

-----------------------------------------------------------------------------
(* collection_from_dict                                                    *)

Start ==
    /\ pc = "start"
    /\ c = [metadata |-> EmptyDict, records |-> << >>]
    /\ log = << >>
    /\ returned = FALSE

Init ==
    /\ entries \in SmallEntries
    /\ kwargs \in Kwargs(TRUE)
    /\ Start

\* the entry that may follow the one under study in the dict
Follower == << <<"x1", Entry("misc", "x1", {"title"})>> >>

InitRecord ==
    /\ kwargs \in { kw \in Kwargs(FALSE) : DOMAIN kw \in {{}, {"collection"}} }
    /\ \E t \in Types, S \in FieldSets :
          \E rest \in IF "collection" \in DOMAIN kwargs THEN {<< >>, Follower} ELSE {<< >>} :
             entries = << <<"abc", Entry(t, "abc", S)>> >> \o rest
    /\ Start

\* assert 'collection' in kwargs, failing
AssertionError ==
    /\ pc = "start"
    /\ "collection" \notin DOMAIN kwargs
    /\ pc' = "raised"
    /\ UNCHANGED <<entries, kwargs, c, log, returned>>

\* Mutant: the assertion is not made.
SetMetadataNoAssert ==
    /\ pc = "start"
    /\ c' = [c EXCEPT !.metadata =
                [k \in (DOMAIN kwargs) \ {"ignore_exceptions"} |-> kwargs[k]]]
    /\ pc' = "records"
    /\ UNCHANGED <<entries, kwargs, log, returned>>

\* Mutant: ignore_exceptions is copied like any other keyword.
SetMetadataCopyAll ==
    /\ pc = "start"
    /\ "collection" \in DOMAIN kwargs
    /\ c' = [c EXCEPT !.metadata = kwargs]
    /\ pc' = "records"
    /\ UNCHANGED <<entries, kwargs, log, returned>>

\* the assertion holding, then the loop over kwargs.items()
SetMetadata ==
    /\ pc = "start"
    /\ "collection" \in DOMAIN kwargs
    /\ c' = [c EXCEPT !.metadata =
                [k \in (DOMAIN kwargs) \ {"ignore_exceptions"} |-> kwargs[k]]]
    /\ pc' = "records"
    /\ UNCHANGED <<entries, kwargs, log, returned>>

\* Mutant: the record is put at the front of the list.
AppendRecordInFront ==
    /\ pc = "records"
    /\ Len(c.records) < Len(entries)
    /\ LET item == entries[Len(c.records) + 1]
           res  == record_from_entry(item[1], item[2], kwargs["collection"])
       IN  /\ c' = [c EXCEPT !.records = <<res.r>> \o @]
           /\ log' = log \o res.log
    /\ UNCHANGED <<entries, kwargs, pc, returned>>

\* one iteration of `for key, entry in entries.items()`: the next entry is
\* mapped and its record appended
AppendRecord ==
    /\ pc = "records"
    /\ Len(c.records) < Len(entries)
    /\ LET item == entries[Len(c.records) + 1]
           res  == record_from_entry(item[1], item[2], kwargs["collection"])
       IN  /\ c' = [c EXCEPT !.records = Append(@, res.r)]
           /\ log' = log \o res.log
    /\ UNCHANGED <<entries, kwargs, pc, returned>>

\* Mutant: a count supplied by the caller is kept.
ReturnKeepCount ==
    /\ pc = "records"
    /\ Len(c.records) = Len(entries)
    /\ c' = [c EXCEPT !.metadata =
                IF "records" \in DOMAIN @ THEN @ ELSE Put(@, "records", Len(c.records))]
    /\ pc' = "done"
    /\ returned' = TRUE
    /\ UNCHANGED <<entries, kwargs, log>>

\* the loop over, c['metadata']['records'] = len(c['records']); return c
Return ==
    /\ pc = "records"
    /\ Len(c.records) = Len(entries)
    /\ c' = [c EXCEPT !.metadata = Put(@, "records", Len(c.records))]
    /\ pc' = "done"
    /\ returned' = TRUE
    /\ UNCHANGED <<entries, kwargs, log>>

Next == AssertionError \/ SetMetadata \/ AppendRecord \/ Return

\* collection_from_dict on dicts of up to MaxEntries entries
Spec == Init /\ [][Next]_vars

\* collection_from_dict on a dict of one entry drawn from all types and
\* the field sets of FieldSets
SpecRecord == InitRecord /\ [][Next]_vars

-----------------------------------------------------------------------------
(* Vocabulary of the properties.                                           *)

\* the entries mapped so far
Mapped == 1..Len(c.records)

EntryKey(i)  == entries[i][1]
EntryOf(i)   == entries[i][2]
EntryType(i) == entries[i][2]["ENTRYTYPE"]
RecordOf(i)  == c.records[i]

\* the diagnostics about entry i, in the order emitted (keys are distinct)
DiagnosticsOf(i) == SelectSeq(log, LAMBDA d : d.entry = EntryKey(i))

IdentityKeys == {"type", "id", "citekey", "collection"}

-----------------------------------------------------------------------------
(* Properties of collection_from_dict, checked under Spec.                 *)

\* C1: in every returned collection metadata.records is the length of the
\* records list, whatever `records` value the caller passed.
C1_RecordsCount ==
    returned =>
        /\ "records" \in DOMAIN c.metadata
        /\ c.metadata["records"] = Len(c.records)

\* C1 witness: a collection is returned whose caller passed another count.
C1_Witness ==
    /\ returned
    /\ Len(c.records) = 2
    /\ "records" \in DOMAIN kwargs
    /\ kwargs["records"] # Len(c.records)

\* C2: without a `collection` keyword the call fails before any entry is
\* mapped: no record, no diagnostic, no metadata, nothing returned.
C2_NoCollectionFails ==
    "collection" \notin DOMAIN kwargs =>
        /\ pc \in {"start", "raised"}
        /\ c.records = << >>
        /\ log = << >>
        /\ DOMAIN c.metadata = {}
        /\ ~returned

\* C2 witness: the call has failed on a dict that holds entries.
C2_Witness ==
    /\ pc = "raised"
    /\ "collection" \notin DOMAIN kwargs
    /\ Len(entries) >= 1

\* C7: one record per entry, in input order: the i-th record is the one
\* mapped from the i-th entry, and a returned collection has a record for
\* every entry.
C7_OneRecordPerEntryInOrder ==
    /\ Len(c.records) <= Len(entries)
    /\ returned => Len(c.records) = Len(entries)
    /\ \A i \in Mapped :
          /\ RecordOf(i)["citekey"] = EntryKey(i)
          /\ RecordOf(i) =
               record_from_entry(EntryKey(i), EntryOf(i), kwargs["collection"]).r

\* C7 witness: a returned collection of two records, the first of an
\* unknown type, the second missing required fields.
C7_Witness ==
    /\ returned
    /\ Len(c.records) = 2
    /\ EntryType(1) = "foobar"
    /\ EntryType(2) = "book"
    /\ Len(DiagnosticsOf(2)) >= 1

\* C10: the metadata of a returned collection has the keys of the keyword
\* arguments without ignore_exceptions, plus records; every key but records
\* carries the caller's value.
C10_Metadata ==
    returned =>
        /\ DOMAIN c.metadata =
             ((DOMAIN kwargs) \ {"ignore_exceptions"}) \cup {"records"}
        /\ \A k \in (DOMAIN c.metadata) \ {"records"} : c.metadata[k] = kwargs[k]

\* C10 witness: returned, the caller having passed ignore_exceptions and
\* another keyword.
C10_Witness ==
    /\ returned
    /\ "ignore_exceptions" \in DOMAIN kwargs
    /\ "source" \in DOMAIN kwargs
    /\ c.metadata["source"] = "refs.bib"

-----------------------------------------------------------------------------
(* The rule table as the specification states it (section 4.1), for the    *)
(* properties to be measured against.                                      *)

KnownTypes ==
    {"article", "book", "booklet", "conference", "electronic", "inbook",
     "incollection", "inproceedings", "manual", "mastersthesis", "misc",
     "periodical", "phdthesis", "proceedings", "techreport", "unpublished"}

AllOf(keys) == [keys |-> keys, all |-> TRUE]
AnyOf(keys) == [keys |-> keys, all |-> FALSE]

\* the precondition checks of a type, in the order of the table
Preconditions(type) ==
    CASE type = "article"       -> << AllOf(<<"title", "year", "author", "journal">>) >>
      [] type = "book"          -> << AllOf(<<"title", "year", "publisher">>),
                                      AnyOf(<<"author", "editor">>) >>
      [] type = "booklet"       -> << AllOf(<<"title">>) >>
      [] type \in {"conference", "inproceedings"}
                                -> << AllOf(<<"author", "title", "year", "booktitle">>) >>
      [] type = "electronic"    -> << AllOf(<<"author", "title", "howpublished">>) >>
      [] type = "inbook"        -> << AnyOf(<<"author", "editor">>),
                                      AllOf(<<"title", "year", "publisher">>),
                                      AnyOf(<<"chapter", "pages">>) >>
      [] type = "incollection"  -> << AllOf(<<"author", "publisher", "title", "year",
                                            "booktitle">>) >>
      [] type = "manual"        -> << AllOf(<<"author", "title">>) >>
      [] type \in {"mastersthesis", "phdthesis"}
                                -> << AllOf(<<"author", "title", "school", "year">>) >>
      [] type = "misc"          -> << >>
      [] type = "periodical"    -> << AllOf(<<"title", "year", "number">>) >>
      [] type = "proceedings"   -> << AllOf(<<"title", "year">>) >>
      [] type = "techreport"    -> << AllOf(<<"author", "title", "institution", "year">>) >>
      [] type = "unpublished"   -> << AllOf(<<"author", "title", "note">>) >>

\* the scalar fields a type copies
ScalarFields(type) ==
    CASE type = "article"       -> {"title", "year", "note", "key"}
      [] type = "book"          -> {"title", "year", "note", "key", "volume", "number",
                                    "series", "edition", "month"}
      [] type = "booklet"       -> {"title", "howpublished", "address", "month", "year",
                                    "note", "key"}
      [] type \in {"conference", "inproceedings"}
                                -> {"title", "year", "booktitle", "note", "key", "volume",
                                    "number", "series", "organization", "pages",
                                    "address", "edition", "month"}
      [] type = "electronic"    -> {"title", "howpublished", "month", "year", "note", "key"}
      [] type = "inbook"        -> {"title", "year", "note", "key", "volume", "number",
                                    "series", "edition", "month", "chapter", "pages"}
      [] type = "incollection"  -> {"title", "year", "booktitle", "note", "key", "volume",
                                    "number", "series", "chapter", "pages", "address",
                                    "edition", "month"}
      [] type = "manual"        -> {"title", "address", "organization", "edition", "month",
                                    "year", "note", "key"}
      [] type \in {"mastersthesis", "phdthesis"}
                                -> {"title", "school", "year", "address", "month", "note",
                                    "key"}
      [] type = "misc"          -> {"title", "howpublished", "month", "year", "note", "key"}
      [] type = "periodical"    -> {"title", "year", "number", "organization", "note", "key"}
      [] type = "proceedings"   -> {"title", "year", "volume", "number", "series",
                                    "address", "month", "organization", "note", "key"}
      [] type = "techreport"    -> {"title", "institution", "year", "number", "address",
                                    "month", "note", "key"}
      [] type = "unpublished"   -> {"title", "note", "month", "year", "key"}

\* the compound fields a type applies
CompoundFields(type) ==
    CASE type = "article"       -> {"author", "journal"}
      [] type \in {"book", "inbook", "incollection", "conference", "inproceedings"}
                                -> {"author", "editor", "publisher"}
      [] type \in {"booklet", "electronic", "manual", "mastersthesis", "phdthesis",
                   "misc", "unpublished"}
                                -> {"author"}
      [] type = "periodical"    -> {"author", "publisher", "journal"}
      [] type = "proceedings"   -> {"editor", "publisher"}
      [] type = "techreport"    -> {"author", "editor"}

\* a check fails on an entry
CheckFails(entry, check) ==
    IF check.all
    THEN \E k \in Range(check.keys) : k \notin DOMAIN entry
    ELSE \A k \in Range(check.keys) : k \notin DOMAIN entry

\* the checks of its type that entry i fails, in order
FailedChecks(i) ==
    SelectSeq(Preconditions(EntryType(i)), LAMBDA ch : CheckFails(EntryOf(i), ch))

\* the list of named entities of a list of names
NamedEntities(names) == [j \in 1..Len(names) |-> [name |-> names[j]]]

-----------------------------------------------------------------------------
(* Properties of record_from_entry, checked under SpecRecord.              *)

\* C3: an entry of a type outside the sixteen known ones yields a record of
\* exactly the four identity keys whatever its fields, and exactly one
\* diagnostic, naming the type and the citation key; the call does not fail
\* and the builder can go on with the entries that follow.
C3_UnknownType ==
    \A i \in Mapped :
        EntryType(i) \notin KnownTypes =>
            /\ DOMAIN RecordOf(i) = IdentityKeys
            /\ DiagnosticsOf(i) =
                 << [msg |-> "no conversion function", entry |-> EntryKey(i),
                     type |-> EntryType(i)] >>
            /\ pc \in {"records", "done"}
            /\ pc = "records" => ENABLED Next
            /\ pc = "done" => Len(c.records) = Len(entries)

\* C3 witness: an entry of an unknown type carrying nearly every field has
\* been mapped, and the entry after it too.
C3_Witness ==
    /\ returned
    /\ Len(c.records) = 2
    /\ EntryType(1) = "foobar"
    /\ Cardinality(DOMAIN EntryOf(1)) >= 20
    /\ DOMAIN RecordOf(1) = IdentityKeys
    /\ RecordOf(2)["title"] = "T"

\* C4 as stated: an entry of a known type that fails a precondition check
\* gets exactly one diagnostic.
C4_ExactlyOneDiagnostic ==
    \A i \in Mapped :
        (EntryType(i) \in KnownTypes /\ Len(FailedChecks(i)) >= 1) =>
            Len(DiagnosticsOf(i)) = 1

\* C4 amended: an entry of a known type is mapped without failure and gets
\* exactly one diagnostic for each precondition check it fails, in the order
\* of the checks, each listing the fields of its check.
C4_OneDiagnosticPerFailedCheck ==
    \A i \in Mapped :
        EntryType(i) \in KnownTypes =>
            LET D == DiagnosticsOf(i)
                F == FailedChecks(i)
            IN  /\ pc # "raised"
                /\ Len(D) = Len(F)
                /\ \A j \in 1..Len(D) :
                      /\ D[j].msg = "required keys not found"
                      /\ D[j].keys = F[j].keys

\* C4 witness: an inbook entry failing its three checks has been mapped.
C4_Witness ==
    /\ Len(c.records) >= 1
    /\ EntryType(1) = "inbook"
    /\ Len(FailedChecks(1)) = 3
    /\ Len(DiagnosticsOf(1)) = 3

\* the record of entry i carries scalar field k verbatim
CopiedVerbatim(i, k) ==
    /\ k \in DOMAIN RecordOf(i)
    /\ RecordOf(i)[k] = EntryOf(i)[k]

\* the record of entry i carries compound field k, rightly nested, if the
\* entry has what it is made of
CompoundApplied(i, k) ==
    LET e == EntryOf(i)
        r == RecordOf(i)
    IN  CASE k \in {"author", "editor"} ->
               k \in DOMAIN e =>
                   (k \in DOMAIN r /\ r[k] = NamedEntities(e[k]))
          [] k = "publisher" ->
               "publisher" \in DOMAIN e =>
                   /\ "publisher" \in DOMAIN r
                   /\ DOMAIN r["publisher"] = {"name"} \cup ({"address"} \cap DOMAIN e)
                   /\ r["publisher"]["name"] = e["publisher"]
                   /\ "address" \in DOMAIN e => r["publisher"]["address"] = e["address"]
          [] k = "journal" ->
               ("journal" \in DOMAIN e /\ "volume" \in DOMAIN e) =>
                   /\ "journal" \in DOMAIN r
                   /\ r["journal"]["name"] = e["journal"]
                   /\ r["journal"]["volume"] = e["volume"]

\* the four identity keys of the record of entry i
IdentityRight(i) ==
    /\ IdentityKeys \subseteq DOMAIN RecordOf(i)
    /\ RecordOf(i)["type"] = EntryType(i)
    /\ RecordOf(i)["id"] = EntryKey(i)
    /\ RecordOf(i)["citekey"] = EntryKey(i)
    /\ RecordOf(i)["collection"] = kwargs["collection"]

\* C5: the record of an entry of a known type with all required fields
\* present has the identity fields, every listed scalar field the entry has,
\* verbatim, and every applicable compound sub-object.
C5_ListedFieldsCopied ==
    \A i \in Mapped :
        (EntryType(i) \in KnownTypes /\ Len(FailedChecks(i)) = 0) =>
            /\ IdentityRight(i)
            /\ \A k \in ScalarFields(EntryType(i)) \cap DOMAIN EntryOf(i) :
                  CopiedVerbatim(i, k)
            /\ \A k \in CompoundFields(EntryType(i)) : CompoundApplied(i, k)

\* C6 as stated: whatever the type, the record has a journal sub-object
\* exactly when the entry has both journal and volume.
C6_JournalIffBoth ==
    \A i \in Mapped :
        ("journal" \in DOMAIN RecordOf(i)) <=>
            ("journal" \in DOMAIN EntryOf(i) /\ "volume" \in DOMAIN EntryOf(i))

\* C6 amended: the record has a journal sub-object exactly when the entry is
\* an article or a periodical and has both journal and volume; the
\* sub-object then has the entry's journal as name, its volume, and number,
\* pages and month exactly when the entry has them, with the entry's values.
C6_JournalIffBothInArticleOrPeriodical ==
    \A i \in Mapped :
        LET e == EntryOf(i)
            r == RecordOf(i)
        IN  /\ ("journal" \in DOMAIN r) <=>
                  /\ EntryType(i) \in {"article", "periodical"}
                  /\ "journal" \in DOMAIN e
                  /\ "volume" \in DOMAIN e
            /\ "journal" \in DOMAIN r =>
                  /\ DOMAIN r["journal"] =
                       {"name", "volume"} \cup ({"number", "pages", "month"} \cap DOMAIN e)
                  /\ r["journal"]["name"] = e["journal"]
                  /\ r["journal"]["volume"] = e["volume"]
                  /\ \A k \in {"number", "pages", "month"} \cap DOMAIN e :
                        r["journal"][k] = e[k]

\* C6 witness: an article with journal, volume and pages but no number has
\* been mapped.
C6_Witness ==
    /\ Len(c.records) >= 1
    /\ EntryType(1) = "article"
    /\ {"journal", "volume", "pages"} \subseteq DOMAIN EntryOf(1)
    /\ "number" \notin DOMAIN EntryOf(1)
    /\ "journal" \in DOMAIN RecordOf(1)
    /\ DOMAIN RecordOf(1)["journal"] = {"name", "volume", "pages"}

\* C8: in every record type is the entry's type tag, id and citekey are the
\* citation key and collection is the collection argument, whatever the type
\* and whatever fields the entry carries.
C8_IdentityKept == \A i \in Mapped : IdentityRight(i)

\* C8 witness: an entry of a known type carrying fields named key, id, type,
\* citekey and collection has been mapped.
C8_Witness ==
    /\ Len(c.records) >= 1
    /\ EntryType(1) = "book"
    /\ {"key", "id", "type", "citekey", "collection"} \subseteq DOMAIN EntryOf(1)
    /\ RecordOf(1)["key"] = "sortkey"

\* the check of entry i's type that a diagnostic reports, found by its keys
CheckOf(i, d) ==
    LET P == Preconditions(EntryType(i))
    IN  P[CHOOSE j \in 1..Len(P) : P[j].keys = d.keys]

\* C9 as stated: the word of the message is that of the rule: "All" when all
\* of the fields were required, "At least one" when one of them was.
C9_WordNamesRule ==
    \A i \in Mapped :
        EntryType(i) \in KnownTypes =>
            \A j \in 1..Len(DiagnosticsOf(i)) :
                LET d == DiagnosticsOf(i)[j]
                IN  /\ d.keys = FailedChecks(i)[j].keys
                    /\ d.entry = EntryKey(i)
                    /\ d.quantifier =
                         IF FailedChecks(i)[j].all THEN "All" ELSE "At least one"

\* C9 amended: the word of the message counts the fields not found: "At
\* least one" when a check requiring all of the fields fails, "All" when a
\* check requiring one of them fails; the message lists the fields of the
\* check and the entry's ID.
C9_WordCountsMissing ==
    \A i \in Mapped :
        EntryType(i) \in KnownTypes =>
            \A j \in 1..Len(DiagnosticsOf(i)) :
                LET d == DiagnosticsOf(i)[j]
                IN  /\ d.keys = FailedChecks(i)[j].keys
                    /\ d.entry = EntryKey(i)
                    /\ d.entry = EntryOf(i)["ID"]
                    /\ d.quantifier =
                         IF FailedChecks(i)[j].all THEN "At least one" ELSE "All"

\* C9 witness: a book failing both its checks, the one requiring all and the
\* one requiring one, has been mapped.
C9_Witness ==
    /\ Len(c.records) >= 1
    /\ EntryType(1) = "book"
    /\ Len(DiagnosticsOf(1)) = 2
    /\ DiagnosticsOf(1)[1].quantifier = "At least one"
    /\ DiagnosticsOf(1)[2].quantifier = "All"

=============================================================================
